---- MODULE Spec2Model ----
(***************************************************************************)
(* A model of package goline (goline.go): the Ask prompt loop, the Confirm *)
(* helper built on it, and the List formatter.                             *)
(*                                                                         *)
(* Text is modelled as a sequence of one-character strings, so that the    *)
(* code's byte-level operations (first byte, last rune, trailing blanks,   *)
(* padding) are computed and not assumed.                                  *)
(*                                                                         *)
(* goline.go calls into question.go, errors.go and set.go, which belong to *)
(* the package (see the Makefile) but are not part of the sources at hand; *)
(* the definitions that stand for them follow the written specification    *)
(* and are marked as such where they are introduced.                       *)
(***************************************************************************)
EXTENDS Integers, Sequences, FiniteSets, TLC

\* ------------------------------------------------------------------ bounds

\* Lines the input stream can deliver before it reports end of file.
MaxReads == 2
\* Longest item sequence handed to List.
MaxItems == 5

\* ------------------------------------------------------------------- text

Digits == {"0", "1", "2", "3", "4", "5", "6", "7", "8", "9"}

\* unicode.IsSpace restricted to the characters the model uses.
IsSpace(c) == c \in {" ", "\n", "\t"}

\* Go's integer division truncates toward zero; \div floors.
GoDiv(a, b) ==
    IF a >= 0 THEN a \div b ELSE -((-a) \div b)

\* Length of the longest suffix of s made of white space only.
RECURSIVE SpaceSuffixLen(_)
SpaceSuffixLen(s) ==
    IF s = <<>> THEN 0
    ELSE IF IsSpace(s[Len(s)]) THEN 1 + SpaceSuffixLen(SubSeq(s, 1, Len(s) - 1))
    ELSE 0

\* stringSuffixIndexFunc(s, unicode.IsSpace), as a 0-based byte index; -1 when
\* s has no white-space suffix.
stringSuffixIndexFunc(s) ==
    IF SpaceSuffixLen(s) = 0 THEN -1 ELSE Len(s) - SpaceSuffixLen(s)

\* stringSuffixFunc(s, unicode.IsSpace): s[i:] for that index, else "".
stringSuffixFunc(s) ==
    IF stringSuffixIndexFunc(s) >= 0
    THEN SubSeq(s, stringSuffixIndexFunc(s) + 1, Len(s))
    ELSE <<>>

\* strings.TrimRightFunc(s, unicode.IsSpace)
TrimRight(s) == SubSeq(s, 1, Len(s) - SpaceSuffixLen(s))

\* The text Say(msg) writes: msg itself when its last rune is white space
\* (fmt.Print), msg and a newline otherwise (fmt.Println).
Say(msg) ==
    IF msg # <<>> /\ IsSpace(msg[Len(msg)]) THEN msg ELSE msg \o <<"\n">>

SayTrimmed(msg) == Say(TrimRight(msg))

\* strings.Join(parts, sep)
RECURSIVE Join(_, _)
Join(parts, sep) ==
    IF parts = <<>> THEN <<>>
    ELSE IF Len(parts) = 1 THEN parts[1]
    ELSE parts[1] \o sep \o Join(Tail(parts), sep)

\* --------------------------------------------------------------- tokens

T_empty == <<>>
T_7 == <<"7">>
T_300 == <<"3", "0", "0">>
T_y == <<"y">>
T_yes == <<"y", "e", "s">>
T_n == <<"n">>
T_no == <<"n", "o">>
T_maybe == <<"m", "a", "y", "b", "e">>

\* The lines a user may type.
InputTokens == {T_empty, T_7, T_300, T_y, T_yes, T_n, T_no, T_maybe}

\* The prompt text the caller passes, and a configured "on error" response.
Msg == <<"Q", "?", " ">>
Again == <<"A", "g", "a", "i", "n", ":", " ">>

\* ------------------------------------------------- question.go, errors.go
\* The definitions of this section stand for code of the package that lives
\* in question.go, errors.go and set.go.  They follow the specification:
\* coercion (4.1), the constraint set (4.2), the Question lifecycle (4.3)
\* and the error taxonomy (7).

Uint == "Uint"
Int_ == "Int"
Float == "Float"
String == "String"
Types == {Uint, Int_, Float, String}

\* A coerced value: kind k, number n (Uint, Int; the mantissa of a Float),
\* e decimal places (Float), text s (String).
MkVal(k, n, e, s) == [k |-> k, n |-> n, e |-> e, s |-> s]

DigitVal(c) == CHOOSE d \in 0..9 : <<"0", "1", "2", "3", "4", "5", "6", "7", "8", "9">>[d + 1] = c

RECURSIVE DigitsValue(_)
DigitsValue(s) ==
    IF s = <<>> THEN 0
    ELSE 10 * DigitsValue(SubSeq(s, 1, Len(s) - 1)) + DigitVal(s[Len(s)])

AllDigits(s) == s # <<>> /\ \A i \in 1..Len(s) : s[i] \in Digits

HasSign(s) == s # <<>> /\ s[1] \in {"+", "-"}
Unsigned(s) == IF HasSign(s) THEN Tail(s) ELSE s
SignOf(s) == IF s # <<>> /\ s[1] = "-" THEN -1 ELSE 1

NotPoint(c) == c # "."
Points(s) == Len(s) - Len(SelectSeq(s, NotPoint))
RECURSIVE PlacesAfterPoint(_)
PlacesAfterPoint(s) ==
    IF s = <<>> \/ s[Len(s)] = "." THEN 0
    ELSE 1 + PlacesAfterPoint(SubSeq(s, 1, Len(s) - 1))

\* coerce(token, tag): the value of the token in the wide representation of
\* the tag, or a failure.  Tokens are short (at most five characters), so
\* the magnitude never reaches the 64-bit limits.
Coerce(tok, typ) ==
    CASE typ = String -> [ok |-> TRUE, val |-> MkVal(String, 0, 0, tok)]
      [] typ = Uint ->
            IF AllDigits(tok)
            THEN [ok |-> TRUE, val |-> MkVal(Uint, DigitsValue(tok), 0, <<>>)]
            ELSE [ok |-> FALSE, val |-> MkVal(Uint, 0, 0, <<>>)]
      [] typ = Int_ ->
            IF AllDigits(Unsigned(tok))
            THEN [ok |-> TRUE,
                  val |-> MkVal(Int_, SignOf(tok) * DigitsValue(Unsigned(tok)), 0, <<>>)]
            ELSE [ok |-> FALSE, val |-> MkVal(Int_, 0, 0, <<>>)]
      [] typ = Float ->
            IF Points(Unsigned(tok)) <= 1 /\ AllDigits(SelectSeq(Unsigned(tok), NotPoint))
            THEN [ok |-> TRUE,
                  val |-> MkVal(Float,
                                SignOf(tok) * DigitsValue(SelectSeq(Unsigned(tok), NotPoint)),
                                IF Points(Unsigned(tok)) = 1
                                THEN PlacesAfterPoint(Unsigned(tok)) ELSE 0,
                                <<>>)]
            ELSE [ok |-> FALSE, val |-> MkVal(Float, 0, 0, <<>>)]

\* validate: an absent constraint set accepts everything; a membership set
\* accepts the token only if it is one of its members.
Validate(set, tok) == set = <<>> \/ tok \in set[1]

\* The error values of the package.  panicUnrecoverable(err) returns when
\* err is recoverable and panics with err when it is not.
NoErr == "nil"
ErrNotPtr == "Ask(...) requires a Ptr type"
ErrSlice == "Ask(...) can not currently assign to slices."
ErrEOF == "EOF"
ErrCoercion == "coercion failed"
ErrConstraint == "constraint rejected"
ErrNarrow == "narrowing failed"
IsRecoverable(err) == err \in {ErrCoercion, ErrConstraint, ErrNarrow}
Panics(err) == ~IsRecoverable(err)

\* newQuestion(t): a fresh Question of type t, nothing configured.
newQuestion(t) ==
    [typ |-> t, Question |-> <<>>, Default |-> <<>>, FirstAnswer |-> <<>>,
     set |-> <<>>, OnError |-> <<>>, Panic |-> "nil", val |-> <<>>]

\* q.Responses[AskOnError]: the configured text, or Go's zero value "" of a
\* map lookup when none was configured.
ResponseOnError(q) == IF q.OnError = <<>> THEN <<>> ELSE q.OnError[1]

\* q.parse(raw): an empty line stands for the default when there is one; the
\* token is coerced, then validated.  Returns the error and the new q.val.
Token(q, raw) == IF raw = <<>> /\ q.Default # <<>> THEN q.Default[1] ELSE raw
parse(q, raw) ==
    IF ~Coerce(Token(q, raw), q.typ).ok THEN [err |-> ErrCoercion, val |-> q.val]
    ELSE IF ~Validate(q.set, Token(q, raw)) THEN [err |-> ErrConstraint, val |-> q.val]
    ELSE [err |-> NoErr, val |-> <<Coerce(Token(q, raw), q.typ).val>>]

\* q.tryFirstAnswer(): nothing happens without a first answer; otherwise it
\* is parsed as a response would be.
tryFirstAnswer(q) ==
    IF q.FirstAnswer = <<>> THEN [err |-> NoErr, val |-> q.val]
    ELSE parse(q, q.FirstAnswer[1])

\* q.defaultString(tail): "|default|" and the prompt's trailing white space,
\* or nothing without a default.
defaultString(q, tail) ==
    IF q.Default = <<>> THEN <<>> ELSE <<"|">> \o q.Default[1] \o <<"|">> \o tail

\* The destinations a caller may pass.
NonPtr == "int"
Slice == "[]int"
PtrUint8 == "*uint8"
PtrInt8 == "*int8"
PtrFloat64 == "*float64"
PtrString == "*string"
PtrBool == "*bool"
DestKinds == {NonPtr, Slice, PtrUint8, PtrInt8, PtrFloat64, PtrString, PtrBool}

\* narrow: the wide value fits the destination's kind and bit width.
Narrows(val, d) ==
    CASE d = PtrUint8 -> val.k = Uint /\ val.n >= 0 /\ val.n <= 255
      [] d = PtrInt8 -> val.k = Int_ /\ val.n >= -128 /\ val.n <= 127
      [] d = PtrFloat64 -> val.k = Float
      [] d = PtrString -> val.k = String
      [] OTHER -> FALSE

\* q.setDest(dest): the error, and the value dest holds afterwards.
setDest(q, d, old) ==
    IF q.val # <<>> /\ Narrows(q.val[1], d)
    THEN [err |-> NoErr, dest |-> q.val[1]]
    ELSE [err |-> ErrNarrow, dest |-> old]

\* The zero value a fresh variable of the destination's kind holds.
ZeroOf(d) ==
    CASE d = PtrUint8 -> MkVal(Uint, 0, 0, <<>>)
      [] d = PtrInt8 -> MkVal(Int_, 0, 0, <<>>)
      [] d = PtrFloat64 -> MkVal(Float, 0, 0, <<>>)
      [] d = PtrString -> MkVal(String, 0, 0, <<>>)
      [] OTHER -> MkVal("other", 0, 0, <<>>)

\* ------------------------------------------------------------- the state

VARIABLES
    caller,      \* "Ask": Ask is called directly; "Confirm": through Confirm; "List"
    dest,        \* the kind of the destination handed to Ask
    destVal,     \* the value the destination holds
    destWrites,  \* how often the destination has been assigned
    config,      \* the caller's configure callback (what it sets on the Question)
    yes,         \* Confirm's second argument
    def,         \* Confirm's local def
    confirmErr,  \* Confirm's local err
    confirmRet,  \* <<b>> once Confirm has returned b
    q,           \* Ask's local q: <<>> is the nil pointer, <<question>> otherwise
    e,           \* Ask's named result
    prompt,      \* Ask's local prompt
    resp,        \* Ask's local resp
    lines,       \* the lines the input stream has delivered so far
    streamErr,   \* the input stream has reported a read error
    out,         \* what has been written to the output, in order
    panicCalls,  \* the errors the caller's Panic handler has been called with
    panicking,   \* the value of the panic in flight, NoErr when there is none
    pc,          \* the position of the call
    items,       \* List's arguments and what it printed
    mode,
    option,
    printed

askVars == <<dest, destVal, destWrites, config, yes, def, confirmErr, confirmRet,
             q, e, prompt, resp, lines, streamErr, out, panicCalls, panicking>>
listVars == <<items, mode, option, printed>>
vars == <<caller, pc, askVars, listVars>>

\* ------------------------------------------------------ configure callbacks

NilConfig ==
    [nil |-> TRUE, Default |-> <<>>, In |-> <<>>, FirstAnswer |-> <<>>,
     OnError |-> <<>>, Panic |-> FALSE]

\* The configure callbacks a caller may pass: nil, or a function that sets any
\* of the default, the constraint set, the first answer, the "on error"
\* response and the Panic handler.
Configs ==
    {NilConfig} \cup
    [nil : {FALSE}, Default : {<<>>, <<T_7>>}, In : {<<>>, <<{T_7, T_y}>>},
     FirstAnswer : {<<>>, <<T_7>>, <<T_300>>, <<T_maybe>>},
     OnError : {<<>>, <<Again>>}, Panic : BOOLEAN]

\* config(q) for a non-nil callback.
ApplyConfig(qq, c) ==
    [qq EXCEPT !.Default = IF c.Default # <<>> THEN c.Default ELSE @,
               !.set = IF c.In # <<>> THEN c.In ELSE @,
               !.FirstAnswer = IF c.FirstAnswer # <<>> THEN c.FirstAnswer ELSE @,
               !.OnError = IF c.OnError # <<>> THEN c.OnError ELSE @,
               !.Panic = IF c.Panic THEN "caller" ELSE @]

\* Confirm's def: "yes" when yes, "no" otherwise.
ConfirmDefault(y) == IF y THEN T_yes ELSE T_no

\* The callback Confirm hands to Ask: default and answer set first, then the
\* caller's callback, then the caller's Panic handler wrapped to record err.
ConfirmConfig(qq, d, c) ==
    LET q1 == [qq EXCEPT !.Default = <<d>>, !.set = <<{T_yes, T_y, T_no, T_n}>>]
        q2 == IF c.nil THEN q1 ELSE ApplyConfig(q1, c)
    IN  IF q2.Panic # "nil" THEN [q2 EXCEPT !.Panic = "confirm"] ELSE q2

\* ------------------------------------------------------------------- Ask

\* The destination kinds Ask panics on, with the error it panics with.
DestError(d) ==
    IF d = NonPtr THEN ErrNotPtr ELSE IF d = Slice THEN ErrSlice ELSE NoErr

\* The type switch on dest.  Its default case builds an error and drops it,
\* so t keeps the zero value of Type, whichever of the four types that is.
TypeFor(d) ==
    CASE d = PtrUint8 -> {Uint}
      [] d = PtrInt8 -> {Int_}
      [] d = PtrFloat64 -> {Float}
      [] d = PtrString -> {String}
      [] OTHER -> Types

\* Mutants of FirstAnswerTaken: the shortcut never taken; taken on any outcome.
FirstAnswerTaken_Never(r) == FALSE
FirstAnswerTaken_Always(r) == TRUE

\* The condition under which the first answer ends the call.
FirstAnswerTaken(r) == r.err = NoErr /\ r.val # <<>>

\* What one write to the output looks like: which statement wrote, and the text.
Written(kind, text) == [kind |-> kind, text |-> text]

\* The prompt line Ask writes.
PromptLine(qq, p) == Written("prompt", Say(p \o defaultString(qq, stringSuffixFunc(p))))

\* contFunc's message.
ErrorLine(err) == Written("error", Say(<<"Error: ", err, "\n">>))

\* The text the next prompt is made of after contFunc ran.
contFuncPrompt(qq) == ResponseOnError(qq)

\* What the stream may answer to ReadLine: a line while it has lines left,
\* or an error (end of file) at any time.
ReadOutcomes ==
    {[err |-> TRUE, line |-> <<>>]} \cup
    (IF Len(lines) < MaxReads
     THEN {[err |-> FALSE, line |-> t] : t \in InputTokens} ELSE {})

AskCheckDest ==
    /\ pc = "check"
    /\ IF DestError(dest) # NoErr
       THEN /\ panicking' = (IF Panics(DestError(dest)) THEN DestError(dest) ELSE NoErr)
            /\ pc' = (IF Panics(DestError(dest)) THEN "recover" ELSE "returned")
       ELSE /\ pc' = "configure"
            /\ UNCHANGED panicking
    /\ UNCHANGED <<caller, dest, destVal, destWrites, config, yes, def, confirmErr,
                   confirmRet, q, e, prompt, resp, lines, streamErr, out, panicCalls, listVars>>

AskConfigure ==
    /\ pc = "configure"
    /\ \E t \in TypeFor(dest) :
          LET q0 == [newQuestion(t) EXCEPT !.Question = Msg]
          IN  q' = IF caller = "Confirm" THEN <<ConfirmConfig(q0, def, config)>>
                   ELSE IF config.nil THEN <<q0>>
                   ELSE <<ApplyConfig(q0, config)>>
    /\ pc' = "first"
    /\ UNCHANGED <<caller, dest, destVal, destWrites, config, yes, def, confirmErr,
                   confirmRet, e, prompt, resp, lines, streamErr, out, panicCalls, panicking,
                   listVars>>

AskTryFirstAnswer ==
    /\ pc = "first"
    /\ LET r == tryFirstAnswer(q[1])
           q1 == [q[1] EXCEPT !.val = r.val]
           s == setDest(q1, dest, destVal)
       IN  IF FirstAnswerTaken(r)
           THEN IF s.err # NoErr
                THEN /\ panicking' = (IF Panics(s.err) THEN s.err ELSE NoErr)
                     /\ pc' = (IF Panics(s.err) THEN "recover" ELSE "returned")
                     /\ q' = (IF Panics(s.err) THEN <<q1>> ELSE <<[q1 EXCEPT !.val = <<>>]>>)
                     /\ UNCHANGED <<destVal, destWrites, prompt>>
                ELSE /\ destVal' = s.dest
                     /\ destWrites' = destWrites + 1
                     /\ q' = <<q1>>
                     /\ pc' = "returned"
                     /\ UNCHANGED <<panicking, prompt>>
           ELSE /\ prompt' = Msg
                /\ q' = <<q1>>
                /\ pc' = "prompt"
                /\ UNCHANGED <<destVal, destWrites, panicking>>
    /\ UNCHANGED <<caller, dest, config, yes, def, confirmErr, confirmRet, e, resp,
                   lines, streamErr, out, panicCalls, listVars>>

AskPrompt ==
    /\ pc = "prompt"
    /\ out' = Append(out, PromptLine(q[1], prompt))
    /\ pc' = "read"
    /\ UNCHANGED <<caller, dest, destVal, destWrites, config, yes, def, confirmErr,
                   confirmRet, q, e, prompt, resp, lines, streamErr, panicCalls,
                   panicking, listVars>>

\* Mutant of ReadFailureNext: the read is retried after a new prompt.
ReadFailureNext_Retry(err) == "prompt"

\* if err != nil { panicUnrecoverable(err); return }
ReadFailureNext(err) == IF Panics(err) THEN "recover" ELSE "returned"

\* The inner loop appends the chunks ReadLine returns until one is not a
\* prefix; cut is where a long line is split.
AskRead ==
    /\ pc = "read"
    /\ \E o \in ReadOutcomes :
          IF o.err
          THEN /\ streamErr' = TRUE
               /\ panicking' = (IF Panics(ErrEOF) THEN ErrEOF ELSE NoErr)
               /\ pc' = ReadFailureNext(ErrEOF)
               /\ UNCHANGED <<resp, lines>>
          ELSE /\ \E cut \in 0..Len(o.line) :
                     resp' = SubSeq(o.line, 1, cut) \o SubSeq(o.line, cut + 1, Len(o.line))
               /\ lines' = Append(lines, o.line)
               /\ pc' = "parse"
               /\ UNCHANGED <<panicking, streamErr>>
    /\ UNCHANGED <<caller, dest, destVal, destWrites, config, yes, def, confirmErr,
                   confirmRet, q, e, prompt, out, panicCalls, listVars>>

\* Mutants of ParseFailureNext: return where the code continues; read again
\* without a new prompt.
ParseFailureNext_NoPrompt == "read"
ParseFailureNext_Return == "returned"

\* After q.parse failed with a recoverable error: contFunc, then continue.
ParseFailureNext == "prompt"

AskParse ==
    /\ pc = "parse"
    /\ LET r == parse(q[1], resp)
       IN  IF r.err # NoErr
           THEN IF Panics(r.err)
                THEN /\ panicking' = r.err
                     /\ pc' = "recover"
                     /\ UNCHANGED <<out, prompt, q>>
                ELSE /\ out' = Append(out, ErrorLine(r.err))
                     /\ prompt' = contFuncPrompt(q[1])
                     /\ pc' = ParseFailureNext
                     /\ UNCHANGED <<panicking, q>>
           ELSE /\ q' = <<[q[1] EXCEPT !.val = r.val]>>
                /\ pc' = "setdest"
                /\ UNCHANGED <<out, prompt, panicking>>
    /\ UNCHANGED <<caller, dest, destVal, destWrites, config, yes, def, confirmErr,
                   confirmRet, e, resp, lines, streamErr, panicCalls, listVars>>

\* Mutant of NarrowFailureNext: a failed setDest ends the call.
NarrowFailureNext_Return == "returned"

\* After q.setDest failed with a recoverable error: contFunc, then continue.
NarrowFailureNext == "prompt"

\* Mutant of AssignedNext: the loop goes on after the assignment.
AssignedNext_Loop == "prompt"

\* After q.setDest succeeded: break, then return.
AssignedNext == "returned"

AskSetDest ==
    /\ pc = "setdest"
    /\ LET s == setDest(q[1], dest, destVal)
       IN  IF s.err # NoErr
           THEN IF Panics(s.err)
                THEN /\ panicking' = s.err
                     /\ pc' = "recover"
                     /\ UNCHANGED <<out, prompt, destVal, destWrites>>
                ELSE /\ out' = Append(out, ErrorLine(s.err))
                     /\ prompt' = contFuncPrompt(q[1])
                     /\ pc' = NarrowFailureNext
                     /\ UNCHANGED <<panicking, destVal, destWrites>>
           ELSE /\ destVal' = s.dest
                /\ destWrites' = destWrites + 1
                /\ pc' = AssignedNext
                /\ UNCHANGED <<out, prompt, panicking>>
    /\ UNCHANGED <<caller, dest, config, yes, def, confirmErr, confirmRet, q, e, resp,
                   lines, streamErr, panicCalls, listVars>>

\* The deferred function.  Every panic value of the model is an os.Error.
\* It reads q.Panic: with q still nil that is a nil pointer dereference, a
\* second panic that leaves Ask.
ErrNilDeref == "runtime error: nil pointer dereference"
AskRecover ==
    /\ pc = "recover"
    /\ IF q = <<>>
       THEN /\ panicking' = ErrNilDeref
            /\ pc' = "fault"
            /\ UNCHANGED <<panicCalls, confirmErr>>
       ELSE /\ panicCalls' = (IF q[1].Panic # "nil" THEN Append(panicCalls, panicking)
                              ELSE panicCalls)
            /\ confirmErr' = (IF q[1].Panic = "confirm" THEN panicking ELSE confirmErr)
            /\ panicking' = NoErr
            /\ pc' = "returned"
    /\ UNCHANGED <<caller, dest, destVal, destWrites, config, yes, def, confirmRet, q, e,
                   prompt, resp, lines, streamErr, out, listVars>>

\* ---------------------------------------------------------------- Confirm

ConfirmCall ==
    /\ pc = "confirm"
    /\ def' = ConfirmDefault(yes)
    /\ pc' = "check"
    /\ UNCHANGED <<caller, dest, destVal, destWrites, config, yes, confirmErr, confirmRet,
                   q, e, prompt, resp, lines, streamErr, out, panicCalls, panicking, listVars>>

\* Mutant of ConfirmResult: only the whole word counts as a yes.
ConfirmResult_WholeWord(okstr) == okstr = T_yes

\* okstr[0] == 'y'
ConfirmResult(okstr) == okstr[1] = "y"

ErrIndex == "runtime error: index out of range"
ConfirmReturn ==
    /\ pc = "returned"
    /\ caller = "Confirm"
    /\ IF confirmErr # NoErr
       THEN /\ confirmRet' = <<FALSE>>
            /\ pc' = "confirm_done"
            /\ UNCHANGED panicking
       ELSE IF destVal.s = <<>>
       THEN /\ panicking' = ErrIndex
            /\ pc' = "confirm_fault"
            /\ UNCHANGED confirmRet
       ELSE /\ confirmRet' = <<ConfirmResult(destVal.s)>>
            /\ pc' = "confirm_done"
            /\ UNCHANGED panicking
    /\ UNCHANGED <<caller, dest, destVal, destWrites, config, yes, def, confirmErr, q, e,
                   prompt, resp, lines, streamErr, out, panicCalls, listVars>>

\* ------------------------------------------------------------------ List

ColumnsAcross == "ColumnsAcross"
ColumnsDown == "ColumnsDown"
Inline == "Inline"
Rows == "Rows"
\* A ListMode value outside the four constants.
OtherMode == "ListMode(4)"
Modes == {ColumnsAcross, ColumnsDown, Inline, Rows, OtherMode}

DefaultWrap == 80
DefaultJoin == <<" ", "o", "r", " ">>

\* An element of items: text (a string or a Stringer, with its String()) or
\* a value of another type.
TextItem(s) == [text |-> TRUE, s |-> s]
OtherItem == [text |-> FALSE, s |-> <<>>]
ItemPool == {TextItem(<<"a">>), TextItem(<<"b">>), TextItem(<<"c", "c">>), OtherItem}

\* The option argument: nil, an int, a string, or a value of another type.
OptNil == [t |-> "nil", n |-> 0, s |-> <<>>]
OptInt(n) == [t |-> "int", n |-> n, s |-> <<>>]
OptString(s) == [t |-> "string", n |-> 0, s |-> s]
OptOther == [t |-> "other", n |-> 0, s |-> <<>>]
Options == {OptNil, OptOther, OptString(<<"o", "r">>)}
             \cup {OptInt(n) : n \in {-2, 0, 3, 5, 7}}

Seqs(S, n) == UNION {[1..k -> S] : k \in 0..n}

ErrItems == "List items contain non-string, non-Stringer item"
ErrOption == "List option of unacceptable type"
ErrMode == "Unknown mode"

\* What List did: the texts it wrote, and the panic it ended with (NoErr: none).
Did(lns, err) == [printed |-> lns, panic |-> err]

\* strs after the conversion loop.
Strs(its) == [i \in 1..Len(its) |-> its[i].s]

\* The longest len(strs[i]).
RECURSIVE MaxWidth(_)
MaxWidth(strs) ==
    IF strs = <<>> THEN 0
    ELSE IF Len(Head(strs)) > MaxWidth(Tail(strs)) THEN Len(Head(strs))
    ELSE MaxWidth(Tail(strs))

\* fmt.Sprintf("%-<width>s", s)
Pad(s, width) == s \o [i \in 1..(IF width > Len(s) THEN width - Len(s) ELSE 0) |-> " "]

\* Mutant of NCols: the blank between two columns is not counted.
NCols_NoSeparator(wrap, width) == GoDiv(wrap + 1, IF width = 0 THEN 1 ELSE width)

\* ncols := (wrap + 1) / (width + 1)
NCols(wrap, width) == GoDiv(wrap + 1, width + 1)

\* Mutant of NRows: the quotient rounded down.
NRows_Floor(n, ncols) == GoDiv(n, ncols)

\* nrows := (n + ncols - 1) / ncols
NRows(n, ncols) == GoDiv(n + ncols - 1, ncols)

\* for i := range strs { SayTrimmed(strs[i]) }
EachRow(strs) == [i \in 1..Len(strs) |-> SayTrimmed(strs[i])]

\* Mutant of AcrossEnd: a full row ends one item early.
AcrossEnd_Short(i, n, ncols) == IF i + ncols > n THEN n ELSE i + ncols - 1

\* end := i + ncols; if end > n { end = n }
AcrossEnd(i, n, ncols) == IF i + ncols > n THEN n ELSE i + ncols

\* for i := 0; i < n; i += ncols { SayTrimmed(Join(strs[i:end], " ")) }
RECURSIVE AcrossRows(_, _, _)
AcrossRows(strs, i, ncols) ==
    IF i < Len(strs)
    THEN <<SayTrimmed(Join(SubSeq(strs, i + 1, AcrossEnd(i, Len(strs), ncols)), <<" ">>))>>
         \o AcrossRows(strs, i + ncols, ncols)
    ELSE <<>>

\* for j := 0; j < ncols; j++ { index := j*nrows + i; if index >= n { break }; ... }
RECURSIVE DownRow(_, _, _, _, _)
DownRow(strs, i, j, nrows, ncols) ==
    IF j < ncols /\ j * nrows + i < Len(strs)
    THEN <<strs[j * nrows + i + 1]>> \o DownRow(strs, i, j + 1, nrows, ncols)
    ELSE <<>>

\* for i := 0; i < nrows; i++ { ...; SayTrimmed(Join(row, " ")) }
RECURSIVE DownRows(_, _, _, _)
DownRows(strs, i, nrows, ncols) ==
    IF i < nrows
    THEN <<SayTrimmed(Join(DownRow(strs, i, 0, nrows, ncols), <<" ">>))>>
         \o DownRows(strs, i + 1, nrows, ncols)
    ELSE <<>>

\* The two column modes.
ListColumns(strs, m, opt) ==
    IF opt.t \notin {"nil", "int"} THEN Did(<<>>, ErrOption)
    ELSE
      LET wrap == IF opt.t = "int" THEN opt.n ELSE DefaultWrap
          width == MaxWidth(strs)
          n == Len(strs)
          ncols == NCols(wrap, width)
          nrows == NRows(n, ncols)
          padded == [i \in 1..n |-> Pad(strs[i], width)]
      IN  IF ncols <= 1 THEN Did(EachRow(strs), NoErr)
          ELSE IF m = ColumnsAcross THEN Did(AcrossRows(padded, 0, ncols), NoErr)
          ELSE Did(DownRows(padded, 0, nrows, ncols), NoErr)

\* The Inline mode.  With no item at all strs[n-1] is out of range.
ListInline(strs, opt) ==
    LET n == Len(strs)
        join == IF opt.t = "string" THEN opt.s ELSE DefaultJoin
    IN  IF n = 1 THEN Did(<<SayTrimmed(strs[1])>>, NoErr)
        ELSE IF opt.t \notin {"nil", "string"} THEN Did(<<>>, ErrOption)
        ELSE IF n = 2
        THEN Did(<<Say(Join(<<strs[n - 1], join, strs[n - 1], <<"\n">>>>, <<>>))>>, NoErr)
        ELSE IF n = 0 THEN Did(<<>>, ErrIndex)
        ELSE Did(<<SayTrimmed(Join([strs EXCEPT ![n] = join \o strs[n]], <<",", " ">>))>>,
                 NoErr)

\* List(items, mode, option) for a slice items.
List(its, m, opt) ==
    IF \E i \in 1..Len(its) : ~its[i].text THEN Did(<<>>, ErrItems)
    ELSE CASE m \in {ColumnsAcross, ColumnsDown} -> ListColumns(Strs(its), m, opt)
           [] m = Inline -> ListInline(Strs(its), opt)
           [] m = Rows -> Did(EachRow(Strs(its)), NoErr)
           [] OTHER -> Did(<<>>, ErrMode)

ListRun ==
    /\ pc = "list"
    /\ printed' = List(items, mode, option).printed
    /\ panicking' = List(items, mode, option).panic
    /\ pc' = (IF List(items, mode, option).panic = NoErr THEN "list_done" ELSE "list_fault")
    /\ UNCHANGED <<caller, dest, destVal, destWrites, config, yes, def, confirmErr,
                   confirmRet, q, e, prompt, resp, lines, streamErr, out, panicCalls, items, mode,
                   option>>

\* ------------------------------------------------------- the specification

InitCommon ==
    /\ config \in Configs
    /\ def = <<>>
    /\ confirmErr = NoErr
    /\ confirmRet = <<>>
    /\ q = <<>>
    /\ e = NoErr
    /\ prompt = <<>>
    /\ resp = <<>>
    /\ lines = <<>>
    /\ streamErr = FALSE
    /\ out = <<>>
    /\ destWrites = 0
    /\ panicCalls = <<>>
    /\ panicking = NoErr
    /\ items = <<>>
    /\ mode = Rows
    /\ option = OptNil
    /\ printed = <<>>

InitAsk ==
    /\ caller = "Ask"
    /\ pc = "check"
    /\ dest \in DestKinds
    /\ destVal = ZeroOf(dest)
    /\ yes = FALSE
    /\ InitCommon

InitConfirm ==
    /\ caller = "Confirm"
    /\ pc = "confirm"
    /\ dest = PtrString
    /\ destVal = ZeroOf(dest)
    /\ yes \in BOOLEAN
    /\ InitCommon

Init == InitAsk \/ InitConfirm

Next ==
    \/ AskCheckDest
    \/ AskConfigure
    \/ AskTryFirstAnswer
    \/ AskPrompt
    \/ AskRead
    \/ AskParse
    \/ AskSetDest
    \/ AskRecover
    \/ ConfirmCall
    \/ ConfirmReturn

Spec == Init /\ [][Next]_vars

\* The program is sequential: whatever step is next is taken.  A blocked read
\* ends with a line or with an error.
FairSpec == Spec /\ WF_vars(Next)

InitList ==
    /\ caller = "List"
    /\ pc = "list"
    /\ items \in Seqs(ItemPool, MaxItems)
    /\ mode \in Modes
    /\ option \in Options
    /\ printed = <<>>
    /\ dest = PtrString
    /\ destVal = ZeroOf(dest)
    /\ yes = FALSE
    /\ config = NilConfig
    /\ def = <<>>
    /\ confirmErr = NoErr
    /\ confirmRet = <<>>
    /\ q = <<>>
    /\ e = NoErr
    /\ prompt = <<>>
    /\ resp = <<>>
    /\ lines = <<>>
    /\ streamErr = FALSE
    /\ out = <<>>
    /\ destWrites = 0
    /\ panicCalls = <<>>
    /\ panicking = NoErr

NextList == ListRun

ListSpec == InitList /\ [][NextList]_vars

\* ------------------------------------------------------------------ claims

\* Positions of a call that has not yet passed the first-answer step.
BeforeLoop == {"confirm", "check", "configure", "first"}

\* The Question as it stood when tryFirstAnswer ran (q.val still nil).
Fresh(qq) == [qq EXCEPT !.val = <<>>]

\* A first answer was configured and it coerces and validates.
FirstAnswerGood ==
    /\ q # <<>>
    /\ q[1].FirstAnswer # <<>>
    /\ parse(Fresh(q[1]), q[1].FirstAnswer[1]).err = NoErr

\* A first answer was configured and it fails coercion or validation.
FirstAnswerBad ==
    /\ q # <<>>
    /\ q[1].FirstAnswer # <<>>
    /\ parse(Fresh(q[1]), q[1].FirstAnswer[1]).err # NoErr

\* The value the first answer coerces to.
FirstAnswerValue == parse(Fresh(q[1]), q[1].FirstAnswer[1]).val[1]

\* C1 as stated: whenever the configured first answer coerces and validates,
\* Ask has, once past the first-answer step, assigned the destination and
\* returned, having written no output and read no input.
C1_AsStated ==
    (caller # "List" /\ FirstAnswerGood /\ pc \notin BeforeLoop) =>
        /\ pc \in {"returned", "confirm_done"}
        /\ destWrites = 1
        /\ out = <<>>
        /\ lines = <<>>

\* C1, amended: whenever the configured first answer coerces and validates,
\* Ask returns having written no output and read no input; it has assigned
\* the destination (once, with the coerced value) exactly when that value
\* narrows into the destination, and has left it untouched otherwise.
C1_FirstAnswerNoIO ==
    (caller # "List" /\ FirstAnswerGood /\ pc \notin BeforeLoop) =>
        /\ pc \in {"returned", "confirm_done"}
        /\ out = <<>>
        /\ lines = <<>>
        /\ ~streamErr
        /\ e = NoErr
        /\ IF Narrows(FirstAnswerValue, dest)
           THEN destWrites = 1 /\ destVal = FirstAnswerValue
           ELSE destWrites = 0 /\ destVal = ZeroOf(dest)

C1_Witness ==
    /\ caller = "Ask"
    /\ pc = "returned"
    /\ FirstAnswerGood
    /\ dest = PtrUint8
    /\ destWrites = 1
    /\ destVal.n = 7
    /\ out = <<>>

\* C2: whenever the configured first answer fails coercion or validation, the
\* failure leaves no trace: before anything is written the call stands at the
\* prompt step with the caller's prompt text, no line read, the Panic handler
\* not called and the destination not written; and the first thing ever
\* written is a prompt that starts with the caller's prompt text.
C2_FirstAnswerFailureSilent ==
    (caller # "List" /\ FirstAnswerBad /\ pc \notin BeforeLoop) =>
        /\ out = <<>> =>
              /\ pc = "prompt"
              /\ prompt = Msg
              /\ lines = <<>>
              /\ panicCalls = <<>>
              /\ destWrites = 0
              /\ destVal = ZeroOf(dest)
        /\ out # <<>> =>
              /\ out[1].kind = "prompt"
              /\ SubSeq(out[1].text, 1, Len(Msg)) = Msg

C2_Witness ==
    /\ caller = "Ask"
    /\ FirstAnswerBad
    /\ q[1].Panic # "nil"
    /\ pc = "read"
    /\ Len(out) = 1
    /\ out[1].kind = "prompt"
    /\ panicCalls = <<>>

\* The last thing written is contFunc's error message.
LastWriteIsError == out # <<>> /\ out[Len(out)].kind = "error"

\* The line just read fails to parse.
ParseFails == pc = "parse" /\ parse(q[1], resp).err # NoErr

\* The line just read parses, validates and narrows into the destination.
ParseSucceeds ==
    /\ pc = "parse"
    /\ parse(q[1], resp).err = NoErr
    /\ Narrows(parse(q[1], resp).val[1], dest)

Ended == {"recover", "returned", "fault", "confirm_done", "confirm_fault"}

\* C4: a failed read is fatal.  The failing read goes straight to the end of
\* the call (the deferred function, then the return); from the failure on
\* nothing more is written, no line is read, and the destination, not written
\* before, stays unwritten.
C4_StreamFailureFatal ==
    /\ [](streamErr => (pc \in Ended /\ destWrites = 0 /\ destVal = ZeroOf(dest)))
    /\ [][(pc = "read" /\ streamErr') =>
            (pc' = "recover" /\ panicking' = ErrEOF /\ out' = out /\ lines' = lines)]_vars
    /\ [][streamErr =>
            (out' = out /\ lines' = lines /\ destVal' = destVal
             /\ destWrites' = destWrites /\ pc' \in Ended)]_vars

C4_Witness ==
    /\ caller = "Ask"
    /\ streamErr
    /\ pc = "returned"
    /\ lines = <<T_maybe>>
    /\ dest = PtrUint8
    /\ Len(out) = 3
    /\ destWrites = 0

\* C5 as stated, for the read failure: when Ask has returned after the input
\* stream failed, its result is a non-nil error, and a nil result comes only
\* with the destination assigned.
C5_AsStated ==
    (caller = "Ask" /\ pc = "returned" /\ streamErr) =>
        /\ e # NoErr
        /\ e = NoErr => destWrites = 1

\* C6 as stated: for a destination that is no pointer, or a slice, the
\* callback is not run, nothing is written or read, and handling the error
\* raises no second fault.
C6_AsStated ==
    (caller = "Ask" /\ dest \in {NonPtr, Slice}) =>
        /\ q = <<>>
        /\ out = <<>>
        /\ lines = <<>>
        /\ pc # "fault"
        /\ panicking # ErrNilDeref

\* C7 as stated: for a pointer to an unsupported kind no prompt is written
\* and no input is read.
C7_AsStated ==
    (caller = "Ask" /\ dest = PtrBool) =>
        /\ out = <<>>
        /\ lines = <<>>
        /\ pc \notin {"prompt", "read", "parse", "setdest"}

\* C8 as stated: Confirm never faults, and when the Ask it made failed (the
\* destination was never assigned) it returns false.
C8_AsStated ==
    caller = "Confirm" =>
        /\ pc # "confirm_fault"
        /\ (pc = "confirm_done" /\ destWrites = 0) => confirmRet = <<FALSE>>

\* Confirm's answer set.
YesNo == {T_yes, T_y, T_no, T_n}

\* The token a line stands for in Confirm: the default for the empty line.
ConfirmToken(line) ==
    IF line = <<>> THEN (IF yes THEN T_yes ELSE T_no) ELSE line

\* C9: when Confirm returns with the answer set {yes, y, no, n} and the default
\* left as Confirm set them, the lines read were k >= 0 rejected tokens, each
\* answered with one error message, then one accepted token (the empty line
\* standing for "yes" if defaultYes, else "no"); the result is true exactly
\* when the accepted token starts with 'y'.
C9_ConfirmResult ==
    (caller = "Confirm" /\ pc = "confirm_done" /\ destWrites = 1
        /\ q[1].set = <<YesNo>> /\ q[1].Default = <<ConfirmToken(<<>>)>>) =>
        /\ lines # <<>>
        /\ \A i \in 1..(Len(lines) - 1) : ConfirmToken(lines[i]) \notin YesNo
        /\ ConfirmToken(lines[Len(lines)]) \in YesNo
        /\ Len(SelectSeq(out, LAMBDA w : w.kind = "error")) = Len(lines) - 1
        /\ Len(SelectSeq(out, LAMBDA w : w.kind = "prompt")) = Len(lines)
        /\ confirmRet = <<ConfirmToken(lines[Len(lines)])[1] = "y">>
        /\ (lines = <<T_empty>> /\ yes) => confirmRet = <<TRUE>>
        /\ lines[Len(lines)] = T_no => confirmRet = <<FALSE>>
        /\ lines = <<T_maybe, T_y>> => confirmRet = <<TRUE>>

C9_Witness ==
    /\ caller = "Confirm"
    /\ pc = "confirm_done"
    /\ config = NilConfig
    /\ yes
    /\ lines = <<T_maybe, T_y>>
    /\ Len(out) = 3
    /\ confirmRet = <<TRUE>>

\* The numbers the column modes work with, for List's arguments.
ItemTexts == [i \in 1..Len(items) |-> items[i].s]
Wrap == IF option.t = "int" THEN option.n ELSE DefaultWrap
Width ==
    IF items = <<>> THEN 0
    ELSE CHOOSE w \in {Len(items[i].s) : i \in 1..Len(items)} :
            \A i \in 1..Len(items) : Len(items[i].s) <= w
ColumnCount == GoDiv(Wrap + 1, Width + 1)
\* ceil(n / c)
CeilDiv(n, c) == CHOOSE k \in 0..n : k * c >= n /\ (k - 1) * c < n

\* The line a row of the given items makes: each item padded with blanks to
\* the width, one blank between them, trailing blanks dropped, a newline.
RowOf(first, last) ==
    LET cell(i) == ItemTexts[i] \o [k \in 1..(Width - Len(ItemTexts[i])) |-> " "]
        cells == [i \in 1..(last - first + 1) |-> cell(first + i - 1)]
        joined == Join(cells, <<" ">>)
        keep == CHOOSE m \in 0..Len(joined) :
                    /\ \A k \in (m + 1)..Len(joined) : joined[k] = " "
                    /\ m > 0 => joined[m] # " "
    IN  SubSeq(joined, 1, keep) \o <<"\n">>

\* C10: in ColumnsAcross mode with more than one column, List prints exactly
\* ceil(n/ncols) rows, and row r (from 0) is made of the items r*ncols up to
\* min(n, (r+1)*ncols) - 1, in their order.
C10_AcrossRows ==
    (caller = "List" /\ pc = "list_done" /\ mode = ColumnsAcross /\ ColumnCount > 1) =>
        /\ Len(printed) = CeilDiv(Len(items), ColumnCount)
        /\ \A r \in 0..(Len(printed) - 1) :
              printed[r + 1] =
                  RowOf(r * ColumnCount + 1,
                        IF (r + 1) * ColumnCount < Len(items)
                        THEN (r + 1) * ColumnCount ELSE Len(items))

\* The example of the claim with b for every second item: five items of
\* width 1, wrap 5, three columns.
C10_Witness ==
    /\ caller = "List"
    /\ pc = "list_done"
    /\ mode = ColumnsAcross
    /\ option = OptInt(5)
    /\ ItemTexts = <<<<"a">>, <<"b">>, <<"a">>, <<"b">>, <<"a">>>>
    /\ ColumnCount = 3
    /\ printed = << <<"a", " ", "b", " ", "a", "\n">>, <<"b", " ", "a", "\n">> >>

\* The line a row makes of the items at the given (1-based) positions: each
\* padded with blanks to the width, one blank between them, trailing blanks
\* dropped, a newline.
RowAt(idx) ==
    LET cell(i) == ItemTexts[i] \o [k \in 1..(Width - Len(ItemTexts[i])) |-> " "]
        cells == [j \in 1..Len(idx) |-> cell(idx[j])]
        joined == Join(cells, <<" ">>)
        keep == CHOOSE m \in 0..Len(joined) :
                    /\ \A k \in (m + 1)..Len(joined) : joined[k] = " "
                    /\ m > 0 => joined[m] # " "
    IN  SubSeq(joined, 1, keep) \o <<"\n">>

\* The (0-based) item indices of row i in column-major order with nr rows:
\* i, nr + i, 2*nr + i, ... below n.
DownIndices(i, nr) ==
    LET cnt == Cardinality({k \in 0..(Len(items) - 1) : k % nr = i})
    IN  [j \in 1..cnt |-> (j - 1) * nr + i]

\* C11: in ColumnsDown mode with more than one column List prints exactly
\* nrows = ceil(n/ncols) rows; row i is made of the items at the indices
\* j*nrows + i (j = 0, 1, ...) below n, holds at least one and at most ncols
\* items, and every index 0..n-1 belongs to exactly one row.
C11_DownRows ==
    (caller = "List" /\ pc = "list_done" /\ mode = ColumnsDown /\ ColumnCount > 1) =>
        LET nr == CeilDiv(Len(items), ColumnCount)
        IN  /\ Len(printed) = nr
            /\ \A i \in 0..(nr - 1) :
                  /\ Len(DownIndices(i, nr)) >= 1
                  /\ Len(DownIndices(i, nr)) <= ColumnCount
                  /\ printed[i + 1] =
                        RowAt([j \in 1..Len(DownIndices(i, nr)) |-> DownIndices(i, nr)[j] + 1])
            /\ \A k \in 0..(Len(items) - 1) :
                  Cardinality({<<i, j>> \in (0..(nr - 1)) \X (1..Len(items)) :
                                  j <= Len(DownIndices(i, nr)) /\ DownIndices(i, nr)[j] = k}) = 1

\* Five items, wrap 5, width 1: three columns, two rows; the first row holds
\* the items 0, 2, 4 and the second the items 1, 3.
C11_Witness ==
    /\ caller = "List"
    /\ pc = "list_done"
    /\ mode = ColumnsDown
    /\ option = OptInt(5)
    /\ ItemTexts = <<<<"a">>, <<"b">>, <<"a">>, <<"b">>, <<"b">>>>
    /\ ColumnCount = 3
    /\ printed = << <<"a", " ", "a", " ", "b", "\n">>, <<"b", " ", "b", "\n">> >>

\* The join word of an Inline call as the claims read it: the option, "or"
\* when there is none.
JoinWord == IF option.t = "string" THEN option.s ELSE <<"o", "r">>

AllText == \A i \in 1..Len(items) : items[i].text

\* C12 as stated: in Inline mode with three or more items List prints one
\* line, the items joined with ", ", the last one prefixed with the join word
\* and one blank: "i1, i2, ..., J iN".
C12_AsStated ==
    (caller = "List" /\ pc # "list" /\ mode = Inline /\ AllText /\ Len(items) >= 3
        /\ option.t \in {"nil", "string"}) =>
        /\ pc = "list_done"
        /\ printed =
              <<Join([ItemTexts EXCEPT ![Len(items)] = JoinWord \o <<" ">> \o @], <<",", " ">>)
                \o <<"\n">>>>

\* C13 as stated: in Inline mode with exactly two items List prints the one
\* line "<item1> <J> <item2>" and a newline.
C13_AsStated ==
    (caller = "List" /\ pc # "list" /\ mode = Inline /\ AllText /\ Len(items) = 2
        /\ option.t \in {"nil", "string"}) =>
        /\ pc = "list_done"
        /\ printed = <<ItemTexts[1] \o <<" ">> \o JoinWord \o <<" ">> \o ItemTexts[2] \o <<"\n">>>>

\* The option's type does not fit the mode.
OptionMismatch ==
    \/ mode \in {ColumnsAcross, ColumnsDown} /\ option.t \notin {"nil", "int"}
    \/ mode = Inline /\ option.t \notin {"nil", "string"}

\* C14 as stated: with an option whose type does not fit the mode List aborts
\* and prints nothing, however many items there are.
C14_AsStated ==
    (caller = "List" /\ pc # "list" /\ OptionMismatch) =>
        /\ pc = "list_fault"
        /\ printed = <<>>

\* C19 as stated: for text items, one of the four modes and an option of a
\* fitting type, List completes without a panic, and prints nothing for no
\* items.
C19_AsStated ==
    (caller = "List" /\ pc # "list" /\ AllText /\ mode \in {ColumnsAcross, ColumnsDown, Inline, Rows}
        /\ ~OptionMismatch) =>
        /\ pc = "list_done"
        /\ panicking = NoErr
        /\ items = <<>> => printed = <<>>

\* The row of the items at the given positions before trailing blanks are
\* dropped: each padded to the width, one blank between them.
UntrimmedRow(idx) ==
    Join([j \in 1..Len(idx) |->
            ItemTexts[idx[j]] \o [k \in 1..(Width - Len(ItemTexts[idx[j]])) |-> " "]],
         <<" ">>)

\* The (1-based) item positions of printed row r (from 1) in a column mode.
RowPositions(r) ==
    IF mode = ColumnsAcross
    THEN [j \in 1..((IF r * ColumnCount < Len(items) THEN r * ColumnCount ELSE Len(items))
                    - (r - 1) * ColumnCount) |-> (r - 1) * ColumnCount + j]
    ELSE [j \in 1..Len(DownIndices(r - 1, CeilDiv(Len(items), ColumnCount))) |->
            DownIndices(r - 1, CeilDiv(Len(items), ColumnCount))[j] + 1]

\* C20: in the column modes with more than one column every printed row is
\* made of at most ncols items and, padded and joined, before trailing blanks
\* are dropped, is at most wrap characters long; so is the line printed.
C20_RowsFitWrap ==
    (caller = "List" /\ pc = "list_done" /\ mode \in {ColumnsAcross, ColumnsDown}
        /\ ColumnCount > 1) =>
        \A r \in 1..Len(printed) :
            /\ Len(RowPositions(r)) <= ColumnCount
            /\ Len(UntrimmedRow(RowPositions(r))) <= Wrap
            /\ printed[r] = RowAt(RowPositions(r))
            /\ Len(printed[r]) - 1 <= Wrap

\* Wrap 5 and width 2: two columns, a full row is exactly five characters.
C20_Witness ==
    /\ caller = "List"
    /\ pc = "list_done"
    /\ mode = ColumnsDown
    /\ option = OptInt(5)
    /\ Width = 2
    /\ ColumnCount = 2
    /\ Len(items) = 3
    /\ Len(UntrimmedRow(RowPositions(1))) = 5
    /\ Len(printed) = 2

\* How many prompts, and how many error messages, have been written.
Prompts == Len(SelectSeq(out, LAMBDA w : w.kind = "prompt"))
Errors == Len(SelectSeq(out, LAMBDA w : w.kind = "error"))

\* C15 as stated: back at the prompt step after a failed attempt, the prompt
\* text is the configured "on error" response if there is one, and otherwise
\* the text of the failed attempt's prompt, so that the same prompt line is
\* written again; it is never empty.
C15_AsStated ==
    (caller # "List" /\ pc = "prompt" /\ LastWriteIsError) =>
        /\ prompt # <<>>
        /\ IF q[1].OnError # <<>>
           THEN prompt = q[1].OnError[1]
           ELSE [kind |-> "prompt",
                 text |-> Say(prompt \o defaultString(q[1], stringSuffixFunc(prompt)))]
                    = out[Len(out) - 1]

\* C16: the loop runs whole cycles.  Prompts and error messages alternate in
\* the output, starting with a prompt; each line read follows a prompt of its
\* own; each failed attempt has written one error message (one call of
\* contFunc, one swap of the prompt); the line being parsed is the line just
\* read and nothing else; and an Ask that assigned the destination after k
\* failed attempts wrote k+1 prompts and read k+1 lines.
C16_FullCycles ==
    caller # "List" =>
        /\ \A i \in 1..Len(out) : out[i].kind = (IF i % 2 = 1 THEN "prompt" ELSE "error")
        /\ Len(lines) <= Prompts
        /\ pc = "prompt" => (Prompts = Len(lines) /\ Errors = Len(lines))
        /\ pc = "read" => (Prompts = Len(lines) + 1 /\ Errors = Len(lines))
        /\ pc \in {"parse", "setdest"} =>
              (Prompts = Len(lines) /\ Errors = Len(lines) - 1 /\ resp = lines[Len(lines)])
        /\ (pc \in {"returned", "confirm_done"} /\ destWrites = 1 /\ lines # <<>>) =>
              (Prompts = Errors + 1 /\ Len(lines) = Errors + 1)

C16_Witness ==
    /\ caller = "Ask"
    /\ pc = "returned"
    /\ dest = PtrInt8
    /\ lines = <<T_y, T_7>>
    /\ Prompts = 2
    /\ Errors = 1
    /\ destWrites = 1

\* The last thing written is the message of a failed setDest.
LastWriteIsNarrowError ==
    out # <<>> /\ out[Len(out)] = [kind |-> "error", text |-> <<"Error: ", ErrNarrow, "\n">>]

AcceptedToken ==
    IF lines = <<>> THEN q[1].FirstAnswer[1] ELSE Token(q[1], lines[Len(lines)])

\* C18: the destination is assigned at most once; unassigned it holds the
\* value it had before the call; it is assigned only the value of a token that
\* coerced, validated and narrowed, and the call has then returned; while the
\* loop is still running, after a read failure, and for a destination Ask
\* rejects, it is unassigned.
C18_DestinationWrittenOnce ==
    caller # "List" =>
        /\ destWrites <= 1
        /\ destWrites = 0 => destVal = ZeroOf(dest)
        /\ destWrites = 1 =>
              /\ pc \in {"returned", "confirm_done"}
              /\ Coerce(AcceptedToken, q[1].typ).ok
              /\ Validate(q[1].set, AcceptedToken)
              /\ destVal = Coerce(AcceptedToken, q[1].typ).val
              /\ Narrows(destVal, dest)
        /\ (streamErr \/ dest \in {NonPtr, Slice}
              \/ pc \in {"check", "configure", "first", "prompt", "read", "parse", "setdest",
                         "recover", "fault"}) => destWrites = 0

C18_Witness ==
    /\ caller = "Ask"
    /\ pc = "returned"
    /\ dest = PtrInt8
    /\ lines = <<T_maybe, T_7>>
    /\ destWrites = 1
    /\ destVal = MkVal(Int_, 7, 0, <<>>)

====
